---- MODULE Spec2Model ----
(***************************************************************************)
(* PythonScriptExporter (src/XlsxMapper/src/exporter_py.py) as a state     *)
(* machine.  One exporter object lives through a sequence of               *)
(* generate_full_workbook invocations.  The state is the exporter's three   *)
(* registry fields, the locals of the invocation in progress, and the       *)
(* output units written by it.  The workbook description is consumed one    *)
(* sheet and one cell record at a time; what has been consumed so far is    *)
(* kept in workbook_data.                                                   *)
(*                                                                          *)
(* Text is a sequence of one-character strings, so that len(), " " in s,    *)
(* str.isalnum and string comparison are computed and not assumed.          *)
(* Python values are records [type, val] with val the text of the value.    *)
(* Dictionaries are sequences of <<key, value>> pairs in insertion order.   *)
(* Column and row dimensions and image assets are left out: they add        *)
(* statements to a sheet unit that no registry field depends on.            *)
(***************************************************************************)
EXTENDS Integers, Sequences, FiniteSets, TLC

\* ---------------------------------------------------------------- bounds

\* Cell records processed over the life of one exporter (specification Spec).
MaxCells == 2
\* Sheets of one workbook description.
MaxSheets == 2
\* generate_full_workbook invocations on one exporter.
MaxRuns == 2
\* Cell records processed in specification SpecMany, each with a font of its own.
MaxStyles == 1001
\* Cell records of the shorter sheets of SpecMany.
LongLen == 200

\* ------------------------------------------------------- program constants

\* f"{...:03d}": minimum width of the sequence number of an identifier.
PadWidth == 3
\* len(raw) <= 8: longest colour code accepted for font_color and fill_color.
MaxColorLen == 8

\* ------------------------------------------------------------------ text

DigitChar == <<"0", "1", "2", "3", "4", "5", "6", "7", "8", "9">>

\* Characters in code point order (the ones identifiers and names are made of).
CodePoints ==
    <<" ", "!", "0", "1", "2", "3", "4", "5", "6", "7", "8", "9",
      "A", "B", "C", "D", "E", "F", "G", "H", "I", "J", "K", "L", "M",
      "N", "O", "P", "Q", "R", "S", "T", "U", "V", "W", "X", "Y", "Z", "_",
      "a", "b", "c", "d", "e", "f", "g", "h", "i", "j", "k", "l", "m",
      "n", "o", "p", "q", "r", "s", "t", "u", "v", "w", "x", "y", "z">>

Ord(c) == CHOOSE i \in 1..Len(CodePoints) : CodePoints[i] = c

\* str.isalnum on one character.
isalnum(c) == Ord(c) >= Ord("0") /\ c # "_"

\* Python's < on two strings: first differing character decides, a proper
\* prefix is smaller.
RECURSIVE StrLess(_, _)
StrLess(a, b) ==
    IF b = <<>> THEN FALSE
    ELSE IF a = <<>> THEN TRUE
    ELSE IF Head(a) # Head(b) THEN Ord(Head(a)) < Ord(Head(b))
    ELSE StrLess(Tail(a), Tail(b))

\* str(n) for n >= 0.
RECURSIVE Decimal(_)
Decimal(n) ==
    IF n < 10 THEN <<DigitChar[n + 1]>>
    ELSE Decimal(n \div 10) \o <<DigitChar[(n % 10) + 1]>>

RECURSIVE ZeroPad(_, _)
ZeroPad(s, width) == IF Len(s) >= width THEN s ELSE ZeroPad(<<"0">> \o s, width)

\* f"{n:03d}"
Format03d(n) == ZeroPad(Decimal(n), PadWidth)

\* int(s) of a decimal text.
RECURSIVE ParseInt(_)
ParseInt(s) ==
    IF s = <<>> THEN 0
    ELSE 10 * ParseInt(SubSeq(s, 1, Len(s) - 1)) + (Ord(s[Len(s)]) - Ord("0"))

\* " " in s
HasSpace(s) == \E i \in 1..Len(s) : s[i] = " "

\* ---------------------------------------------------------- Python values

Absent == [type |-> "absent", val |-> <<>>]
PyNone == [type |-> "NoneType", val |-> <<>>]
PyStr(s) == [type |-> "str", val |-> s]
PyInt(n) == [type |-> "int", val |-> Decimal(n)]
PyTrue == [type |-> "bool", val |-> <<"T", "r", "u", "e">>]
PyFalse == [type |-> "bool", val |-> <<"F", "a", "l", "s", "e">>]

\* bool(data.get(field)): an absent key gives None.
Truthy(v) ==
    CASE v.type = "absent" -> FALSE
      [] v.type = "NoneType" -> FALSE
      [] v.type = "bool" -> v = PyTrue
      [] v.type = "int" -> v.val # <<"0">>
      [] OTHER -> v.val # <<>>

\* v == 0 in Python: the integer 0 and False.
EqualsZero(v) == (v.type = "int" /\ v.val = <<"0">>) \/ v = PyFalse

\* isinstance(v, str)
IsStr(v) == v.type = "str"

\* ----------------------------------------------------------- dictionaries

\* Keys in the order Python's string comparison gives them.
KeyOrder ==
    <<"bold", "bottom", "color", "horizontal", "italic", "left", "name",
      "right", "size", "style", "text_rotation", "top", "type", "vertical">>

KeyRank(k) == CHOOSE i \in 1..Len(KeyOrder) : KeyOrder[i] = k

\* Insert one item into a list of items sorted by key.
RECURSIVE InsertItem(_, _)
InsertItem(item, items) ==
    IF items = <<>> THEN <<item>>
    ELSE IF KeyRank(item[1]) < KeyRank(Head(items)[1]) THEN <<item>> \o items
    ELSE <<Head(items)>> \o InsertItem(item, Tail(items))

\* sorted(style_dict.items()): the top-level items by key; a nested
\* dictionary value stays as it is, in its own insertion order.
RECURSIVE SortedItems(_)
SortedItems(d) ==
    IF d = <<>> THEN <<>>
    ELSE InsertItem(Head(d), SortedItems(Tail(d)))

\* hashlib.md5(style_str.encode()).hexdigest()[:8].  The digest is taken to be
\* collision free, so it is represented by the text it digests.
md5_8(style_str) == style_str

\* ------------------------------------------------------------ identifiers

PrefixText ==
    [BORDER |-> <<"B", "O", "R", "D", "E", "R">>,
     FILL |-> <<"F", "I", "L", "L">>,
     FONT |-> <<"F", "O", "N", "T">>,
     ALIGN |-> <<"A", "L", "I", "G", "N">>]

Prefixes == {"BORDER", "FILL", "FONT", "ALIGN"}

\* The registry category each prefix is stored under.
CategoryOf ==
    [BORDER |-> "borders", FILL |-> "fills", FONT |-> "fonts", ALIGN |-> "alignments"]

\* The literal "None" a cell without a style of a category is emitted with.
NoStyle == <<"N", "o", "n", "e">>

\* f"{prefix}_{counter:03d}"
SeqId(prefix, counter) == PrefixText[prefix] \o <<"_">> \o Format03d(counter)

\* The sequence number an identifier was minted with.
SeqNumber(prefix, id) == ParseInt(SubSeq(id, Len(PrefixText[prefix]) + 2, Len(id)))

\* ------------------------------------------------------- exporter state

VARIABLES
    style_registry,   \* self.style_registry: category -> (identifier -> declaration)
    style_counters,   \* self.style_counters: prefix -> last sequence number
    style_map,        \* self.style_map: lookup key -> identifier
    pc,               \* position in generate_full_workbook
    sheet_modules,    \* generate_full_workbook's list of clean names
    clean_name,       \* _write_sheet_module's arguments for the sheet in progress
    original_name,
    cmd_merges,       \* _write_sheet_module's statement lists
    cmd_styles,
    cmd_formulas,
    processed_merges, \* _write_sheet_module's set of merge ranges seen
    files,            \* output units written by this invocation: file name -> lines
    workbook_data,    \* the description consumed so far: <<[name, cells]>>
    sheet_scripts,    \* the script emitted for each sheet of workbook_data, in order
    runs,             \* invocations completed on this exporter
    cells_done        \* cell records processed on this exporter

vars ==
    <<style_registry, style_counters, style_map, pc, sheet_modules, clean_name,
      original_name, cmd_merges, cmd_styles, cmd_formulas, processed_merges,
      files, workbook_data, sheet_scripts, runs, cells_done>>

\* The three registry fields as one value.
Registry == [style_registry |-> style_registry,
             style_counters |-> style_counters,
             style_map |-> style_map]

\* __init__: the registry of a new exporter.
NewRegistry ==
    [style_registry |-> [borders |-> <<>>, fills |-> <<>>, fonts |-> <<>>,
                         alignments |-> <<>>],
     style_counters |-> [BORDER |-> 0, FILL |-> 0, FONT |-> 0, ALIGN |-> 0],
     style_map |-> <<>>]

\* Mutant of CategoryOrder: the registry created with fonts first.
CategoryOrderFontsFirst == <<"fonts", "fills", "borders", "alignments">>

\* Iteration order of self.style_registry: the insertion order of __init__.
CategoryOrder == <<"borders", "fills", "fonts", "alignments">>

\* d[key] = value on a dictionary held as a function.
Put(d, key, value) == (key :> value) @@ d

\* ---------------------------------------------------- _generate_style_id

generate_style_id(st, style_dict, prefix) ==
    LET style_str == SortedItems(style_dict)
        style_hash == md5_8(style_str)
        lookup_key == <<prefix, style_hash>>
    IN  IF lookup_key \in DOMAIN st.style_map
        THEN [id |-> st.style_map[lookup_key], st |-> st]
        ELSE LET n == st.style_counters[prefix] + 1
                 seq_id == SeqId(prefix, n)
             IN  [id |-> seq_id,
                  st |-> [st EXCEPT !.style_counters[prefix] = n,
                                    !.style_map = Put(@, lookup_key, seq_id)]]

\* ------------------------------------------- attribute subsets of a cell

\* str(v) as an f-string renders it.
StrOf(v) == IF v.type = "NoneType" THEN NoStyle ELSE v.val

\* d[key] on a dictionary held as a list of items.
Lookup(d, key) == d[CHOOSE i \in 1..Len(d) : d[i][1] = key][2]

\* Lines 90-102: font_data.
FontData(data) ==
    (IF Truthy(data.font_bold) THEN <<<<"bold", PyTrue>>>> ELSE <<>>)
    \o (IF Truthy(data.font_italic) THEN <<<<"italic", PyTrue>>>> ELSE <<>>)
    \o (IF Truthy(data.font_size) THEN <<<<"size", data.font_size>>>> ELSE <<>>)
    \o (IF Truthy(data.font_name) THEN <<<<"name", data.font_name>>>> ELSE <<>>)
    \o (IF IsStr(data.font_color) /\ Len(data.font_color.val) <= MaxColorLen
        THEN <<<<"color", data.font_color>>>> ELSE <<>>)

\* Lines 114-120: align_data.  data.get('text_rotation', 0) is 0 only for an
\* absent key; a key present with the value None gives None, and None != 0.
AlignData(data) ==
    (IF Truthy(data.horizontal_align) /\ data.horizontal_align # PyStr(<<"l", "e", "f", "t">>)
     THEN <<<<"horizontal", data.horizontal_align>>>> ELSE <<>>)
    \o (IF Truthy(data.vertical_align)
           /\ data.vertical_align # PyStr(<<"b", "o", "t", "t", "o", "m">>)
        THEN <<<<"vertical", data.vertical_align>>>> ELSE <<>>)
    \o (IF data.text_rotation.type # "absent" /\ ~EqualsZero(data.text_rotation)
        THEN <<<<"text_rotation", data.text_rotation>>>> ELSE <<>>)

\* Line 138: data['borders'] when it is a non-empty dictionary.
BorderData(data) == data.borders

\* Lines 147-149: fill_data.
FillData(data) ==
    IF IsStr(data.fill_color) /\ Len(data.fill_color.val) <= MaxColorLen
       /\ ~HasSpace(data.fill_color.val)
    THEN <<<<"color", data.fill_color>>, <<"type", PyStr(<<"s", "o", "l", "i", "d">>)>>>>
    ELSE <<>>

\* ----------------------------------------------------- declaration texts

\* Lines 107-109: f"{k}={v}" for int and bool, f"{k}='{v}'" otherwise.
FontDecl(font_data) ==
    [ctor |-> "Font",
     args |-> [i \in 1..Len(font_data) |->
                 [key |-> font_data[i][1], text |-> StrOf(font_data[i][2]),
                  quoted |-> font_data[i][2].type \notin {"int", "bool"}]]]

\* Lines 130-132.
AlignDecl(align_data) ==
    [ctor |-> "Alignment",
     args |-> [i \in 1..Len(align_data) |->
                 [key |-> align_data[i][1], text |-> StrOf(align_data[i][2]),
                  quoted |-> align_data[i][2].type \notin {"int", "bool"}]]]

\* Lines 140-142: one Side per item of data['borders'], in its insertion order.
BorderDecl(borders) ==
    [ctor |-> "Border",
     args |-> [i \in 1..Len(borders) |->
                 [key |-> borders[i][1],
                  style |-> StrOf(Lookup(borders[i][2], "style")),
                  color |-> StrOf(Lookup(borders[i][2], "color"))]]]

\* Lines 153-156.
FillDecl(raw_fill) ==
    [ctor |-> "PatternFill", start_color |-> raw_fill.val, end_color |-> raw_fill.val,
     fill_type |-> <<"s", "o", "l", "i", "d">>]

\* key in d and d[key] = value on a dictionary held as a list of items:
\* a new key goes last, a known key keeps its place.
DictHas(d, key) == \E i \in 1..Len(d) : d[i][1] = key
DictPut(d, key, value) ==
    IF DictHas(d, key)
    THEN [i \in 1..Len(d) |-> IF d[i][1] = key THEN <<key, value>> ELSE d[i]]
    ELSE Append(d, <<key, value>>)

\* self.style_registry[category][id] = decl
Declare(st, category, id, decl) ==
    [st EXCEPT !.style_registry[category] = DictPut(@, id, decl)]

\* if id not in self.style_registry[category]: self.style_registry[category][id] = decl
DeclareIfNew(st, category, id, decl) ==
    IF DictHas(st.style_registry[category], id) THEN st
    ELSE Declare(st, category, id, decl)

\* ------------------------------------------ _write_sheet_module, per cell

\* The statement lists and the set of seen ranges as one value.
SheetLocals == [cmd_merges |-> cmd_merges, cmd_styles |-> cmd_styles,
                cmd_formulas |-> cmd_formulas, processed_merges |-> processed_merges]

\* Lines 56-59 and 69: the locals at the start of a sheet.
NewLocals == [cmd_merges |-> <<>>, cmd_styles |-> <<>>, cmd_formulas |-> <<>>,
              processed_merges |-> {}]

\* Lines 104-110.
FontStep(st, data) ==
    LET font_data == FontData(data)
    IN  IF font_data = <<>> THEN [id |-> NoStyle, st |-> st]
        ELSE LET r == generate_style_id(st, font_data, "FONT")
             IN  [id |-> r.id, st |-> DeclareIfNew(r.st, "fonts", r.id, FontDecl(font_data))]

\* Lines 122-134.
AlignStep(st, data) ==
    LET align_data == AlignData(data)
    IN  IF align_data = <<>> THEN [id |-> NoStyle, st |-> st]
        ELSE LET r == generate_style_id(st, align_data, "ALIGN")
             IN  [id |-> r.id,
                  st |-> DeclareIfNew(r.st, "alignments", r.id, AlignDecl(align_data))]

\* Lines 137-143: the declaration is stored on every cell, known identifier or not.
BorderStep(st, data) ==
    LET borders == BorderData(data)
    IN  IF borders = <<>> THEN [id |-> NoStyle, st |-> st]
        ELSE LET r == generate_style_id(st, borders, "BORDER")
             IN  [id |-> r.id, st |-> Declare(r.st, "borders", r.id, BorderDecl(borders))]

\* Mutant of FillStep: the identifier is interned and its declaration not stored.
FillStepNoDeclare(st, data) ==
    LET fill_data == FillData(data)
    IN  IF fill_data = <<>> THEN [id |-> NoStyle, st |-> st]
        ELSE generate_style_id(st, fill_data, "FILL")

\* Lines 146-157.
FillStep(st, data) ==
    LET fill_data == FillData(data)
    IN  IF fill_data = <<>> THEN [id |-> NoStyle, st |-> st]
        ELSE LET r == generate_style_id(st, fill_data, "FILL")
             IN  [id |-> r.id,
                  st |-> DeclareIfNew(r.st, "fills", r.id, FillDecl(data.fill_color))]

\* Lines 79-81: the formula statement of a record, if it has a formula.
FormulaCmds(data) ==
    IF Truthy(data.formula)
    THEN <<[op |-> "set_formula", address |-> data.coordinate,
            formula |-> StrOf(data.formula)]>>
    ELSE <<>>

\* Lines 84-86 as rendered by line 160: "" for a value that is None.
ValueText(data) ==
    IF data.value.type \in {"absent", "NoneType"} THEN <<>> ELSE StrOf(data.value)

\* Line 164: data.get('merge_range').
MergeRange(data) == IF data.merge_range.type = "absent" THEN PyNone ELSE data.merge_range

\* Mutant of MergeStep: the set of seen ranges is not consulted.
MergeStepNoDedup(loc, data) ==
    IF Truthy(data.is_merged)
    THEN [loc EXCEPT !.cmd_merges = Append(@, [op |-> "merge_cells",
                                               range |-> StrOf(MergeRange(data))])]
    ELSE loc

\* Lines 163-167 on the merge list and the set of seen ranges.
MergeStep(loc, data) ==
    LET m_range == MergeRange(data)
    IN  IF Truthy(data.is_merged) /\ m_range \notin loc.processed_merges
        THEN [loc EXCEPT !.cmd_merges = Append(@, [op |-> "merge_cells",
                                                   range |-> StrOf(m_range)]),
                         !.processed_merges = @ \cup {m_range}]
        ELSE loc

\* Lines 72-167: the loop body for one cell record.
cell_body(st, loc, data) ==
    LET f == FontStep(st, data)
        a == AlignStep(f.st, data)
        b == BorderStep(a.st, data)
        l == FillStep(b.st, data)
        cmd == [op |-> "format_cell", row |-> data.row, column |-> data.col,
                value |-> ValueText(data), font |-> f.id, alignment |-> a.id,
                border |-> b.id, fill |-> l.id]
        loc1 == [loc EXCEPT !.cmd_formulas = @ \o FormulaCmds(data),
                            !.cmd_styles = Append(@, cmd)]
    IN  [st |-> l.st, loc |-> MergeStep(loc1, data)]

\* Mutant of sheet_script: the formulas section placed before the styles section.
sheet_script_formulas_first(clean, original, loc) ==
    <<[op |-> "imports"], [op |-> "def_build", name |-> clean],
      [op |-> "create_sheet", title |-> original]>>
    \o (IF loc.cmd_merges # <<>>
        THEN <<[op |-> "comment", text |-> "# Merges"]>> \o loc.cmd_merges ELSE <<>>)
    \o (IF loc.cmd_formulas # <<>>
        THEN <<[op |-> "comment", text |-> "# Formulas"]>> \o loc.cmd_formulas ELSE <<>>)
    \o (IF loc.cmd_styles # <<>>
        THEN <<[op |-> "comment", text |-> "# Styles"]>> \o loc.cmd_styles ELSE <<>>)
    \o <<[op |-> "print_completed", title |-> original]>>

\* Lines 170-207: the lines of the sheet unit.
sheet_script(clean, original, loc) ==
    <<[op |-> "imports"], [op |-> "def_build", name |-> clean],
      [op |-> "create_sheet", title |-> original]>>
    \o (IF loc.cmd_merges # <<>>
        THEN <<[op |-> "comment", text |-> "# Merges"]>> \o loc.cmd_merges ELSE <<>>)
    \o (IF loc.cmd_styles # <<>>
        THEN <<[op |-> "comment", text |-> "# Styles"]>> \o loc.cmd_styles ELSE <<>>)
    \o (IF loc.cmd_formulas # <<>>
        THEN <<[op |-> "comment", text |-> "# Formulas"]>> \o loc.cmd_formulas ELSE <<>>)
    \o <<[op |-> "print_completed", title |-> original]>>

\* ------------------------------------------------- _write_common_styles

\* Lines 239-240: one line per identifier of sorted(styles.keys()) with its
\* declaration; the keys are distinct, so the items are sorted by their key.
CategoryLines(styles) ==
    LET items == SortSeq(styles, LAMBDA x, y : StrLess(x[1], y[1]))
    IN  [i \in 1..Len(items) |-> [op |-> "assign", id |-> items[i][1], decl |-> items[i][2]]]

\* Lines 237-240 over the categories from position i of the iteration order.
RECURSIVE RegistryLines(_, _)
RegistryLines(registry, i) ==
    IF i > Len(CategoryOrder) THEN <<>>
    ELSE <<[op |-> "comment", text |-> CategoryOrder[i]]>>
         \o CategoryLines(registry[CategoryOrder[i]])
         \o RegistryLines(registry, i + 1)

\* Lines 214-240: the lines of common.py.
common_styles(registry) == <<[op |-> "format_cell_def"]>> \o RegistryLines(registry, 1)

\* ---------------------------------------------- _write_main_reconstructor

\* Lines 247-270: the lines of main.py.
main_script(modules) ==
    <<[op |-> "imports"]>>
    \o [i \in 1..Len(modules) |-> [op |-> "import_build", name |-> modules[i]]]
    \o <<[op |-> "def_main"]>>
    \o [i \in 1..Len(modules) |-> [op |-> "call_build", name |-> modules[i]]]
    \o <<[op |-> "save"]>>

\* ------------------------------------------------------------ file names

\* Line 44: "".join(filter(str.isalnum, sheet_name))
RECURSIVE CleanName(_)
CleanName(sheet_name) ==
    IF sheet_name = <<>> THEN <<>>
    ELSE (IF isalnum(Head(sheet_name)) THEN <<Head(sheet_name)>> ELSE <<>>)
         \o CleanName(Tail(sheet_name))

\* Line 45: f"sheet_{clean_name}.py"
ModuleFilename(clean) == <<"s", "h", "e", "e", "t", "_">> \o clean \o <<".", "p", "y">>

CommonFilename == <<"c", "o", "m", "m", "o", "n", ".", "p", "y">>
MainFilename == <<"m", "a", "i", "n", ".", "p", "y">>

\* ---------------------------------------------------------------- inputs

\* A cell record with every optional field absent.
BlankCell(coordinate, row, col) ==
    [coordinate |-> coordinate, row |-> row, col |-> col,
     value |-> Absent, formula |-> Absent,
     font_bold |-> Absent, font_italic |-> Absent, font_size |-> Absent,
     font_name |-> Absent, font_color |-> Absent,
     horizontal_align |-> Absent, vertical_align |-> Absent, text_rotation |-> Absent,
     borders |-> <<>>, fill_color |-> Absent,
     is_merged |-> Absent, merge_range |-> Absent]

A1 == BlankCell(<<"A", "1">>, 1, 1)
B1 == BlankCell(<<"B", "1">>, 1, 2)

TextV == PyStr(<<"v">>)
FormulaF == PyStr(<<"=", "f">>)
RangeR1 == PyStr(<<"A", "1", ":", "B", "1">>)
RangeR2 == PyStr(<<"A", "1", ":", "B", "2">>)
Thin == PyStr(<<"t", "h", "i", "n">>)
Black == PyStr(<<"0", "0", "0">>)
Red == PyStr(<<"F", "F", "0", "0", "0", "0">>)

\* One side of a border, its two keys in either insertion order.
SideStyleColor == <<<<"style", Thin>>, <<"color", Black>>>>
SideColorStyle == <<<<"color", Black>>, <<"style", Thin>>>>

\* The cell records the sheets of specification Spec are made of.
CellInputs ==
    { \* a value, and a merge range on a record that is not merged
      [A1 EXCEPT !.value = TextV, !.is_merged = PyFalse, !.merge_range = RangeR2],
      \* a formula and a value in one record, bold
      [A1 EXCEPT !.value = TextV, !.formula = FormulaF, !.font_bold = PyTrue],
      \* italic, first cell of a merged range
      [B1 EXCEPT !.value = TextV, !.font_italic = PyTrue,
                 !.is_merged = PyTrue, !.merge_range = RangeR1],
      \* a formula alone, every alignment field at its default, same merged range
      [B1 EXCEPT !.formula = FormulaF,
                 !.horizontal_align = PyStr(<<"l", "e", "f", "t">>),
                 !.vertical_align = PyStr(<<"b", "o", "t", "t", "o", "m">>),
                 !.text_rotation = PyInt(0),
                 !.is_merged = PyTrue, !.merge_range = RangeR1],
      \* text_rotation present and null, a fill colour
      [A1 EXCEPT !.text_rotation = PyNone, !.fill_color = Red],
      \* centred, a fill value with a space in it, a second merged range
      [B1 EXCEPT !.horizontal_align = PyStr(<<"c", "e", "n", "t", "e", "r">>),
                 !.fill_color = PyStr(<<"n", "o", " ", "f", "i", "l", "l">>),
                 !.is_merged = PyTrue, !.merge_range = RangeR2],
      \* the same borders three ways: sides and side keys in either order
      [A1 EXCEPT !.borders = <<<<"left", SideStyleColor>>, <<"right", SideStyleColor>>>>],
      [B1 EXCEPT !.borders = <<<<"right", SideStyleColor>>, <<"left", SideStyleColor>>>>],
      [B1 EXCEPT !.borders = <<<<"left", SideColorStyle>>, <<"right", SideStyleColor>>>>] }

\* Sheet names; the first two differ only in a character that is not alphanumeric.
SheetNames == { <<"A", "b">>, <<"A", " ", "b">>, <<"C">> }

\* The cell records of SpecMany: the i-th has font size i.
SizedCell(i) == [A1 EXCEPT !.font_size = PyInt(i)]

\* The sheet names of SpecMany: S1, S2, ...
LongSheetName(i) == <<"S">> \o Decimal(i)

\* --------------------------------------------------------------- actions

Init ==
    /\ style_registry = NewRegistry.style_registry
    /\ style_counters = NewRegistry.style_counters
    /\ style_map = NewRegistry.style_map
    /\ pc = "idle"
    /\ sheet_modules = <<>>
    /\ clean_name = <<>>
    /\ original_name = <<>>
    /\ cmd_merges = <<>>
    /\ cmd_styles = <<>>
    /\ cmd_formulas = <<>>
    /\ processed_merges = {}
    /\ files = <<>>
    /\ workbook_data = <<>>
    /\ sheet_scripts = <<>>
    /\ runs = 0
    /\ cells_done = 0

\* Line 41: generate_full_workbook is called; nothing of the exporter is reset.
generate_full_workbook ==
    /\ pc = "idle"
    /\ runs < MaxRuns
    /\ pc' = "sheets"
    /\ sheet_modules' = <<>>
    /\ files' = <<>>
    /\ workbook_data' = <<>>
    /\ sheet_scripts' = <<>>
    /\ UNCHANGED <<style_registry, style_counters, style_map, clean_name, original_name,
                   cmd_merges, cmd_styles, cmd_formulas, processed_merges, runs,
                   cells_done>>

\* Lines 43-48 and 56-70: the next sheet of the mapping; its key is new.
next_sheet(sheet_name) ==
    /\ pc = "sheets"
    /\ Len(workbook_data) < MaxSheets
    /\ \A i \in 1..Len(workbook_data) : workbook_data[i].name # sheet_name
    /\ clean_name' = CleanName(sheet_name)
    /\ original_name' = sheet_name
    /\ sheet_modules' = Append(sheet_modules, CleanName(sheet_name))
    /\ cmd_merges' = NewLocals.cmd_merges
    /\ cmd_styles' = NewLocals.cmd_styles
    /\ cmd_formulas' = NewLocals.cmd_formulas
    /\ processed_merges' = NewLocals.processed_merges
    /\ workbook_data' = Append(workbook_data, [name |-> sheet_name, cells |-> <<>>])
    /\ pc' = "cells"
    /\ UNCHANGED <<style_registry, style_counters, style_map, files, sheet_scripts,
                   runs, cells_done>>

\* Lines 72-167: one pass of the loop over the cells.
process_cell(data) ==
    /\ pc = "cells"
    /\ LET r == cell_body(Registry, SheetLocals, data)
       IN  /\ style_registry' = r.st.style_registry
           /\ style_counters' = r.st.style_counters
           /\ style_map' = r.st.style_map
           /\ cmd_merges' = r.loc.cmd_merges
           /\ cmd_styles' = r.loc.cmd_styles
           /\ cmd_formulas' = r.loc.cmd_formulas
           /\ processed_merges' = r.loc.processed_merges
    /\ workbook_data' = [workbook_data EXCEPT ![Len(workbook_data)].cells = Append(@, data)]
    /\ cells_done' = cells_done + 1
    /\ UNCHANGED <<pc, sheet_modules, clean_name, original_name, files, sheet_scripts, runs>>

\* Lines 169-211: the cells are exhausted; the sheet unit is written.
write_sheet_module ==
    /\ pc = "cells"
    /\ LET script == sheet_script(clean_name, original_name, SheetLocals)
       IN  /\ files' = Put(files, ModuleFilename(clean_name), script)
           /\ sheet_scripts' = Append(sheet_scripts, script)
    /\ pc' = "sheets"
    /\ UNCHANGED <<style_registry, style_counters, style_map, sheet_modules, clean_name,
                   original_name, cmd_merges, cmd_styles, cmd_formulas, processed_merges,
                   workbook_data, runs, cells_done>>

\* Lines 50 and 213-244: the sheets are exhausted; common.py is written.
write_common_styles ==
    /\ pc = "sheets"
    /\ files' = Put(files, CommonFilename, common_styles(style_registry))
    /\ pc' = "main"
    /\ UNCHANGED <<style_registry, style_counters, style_map, sheet_modules, clean_name,
                   original_name, cmd_merges, cmd_styles, cmd_formulas, processed_merges,
                   workbook_data, sheet_scripts, runs, cells_done>>

\* Lines 51 and 246-274: main.py is written and the invocation returns.
write_main_reconstructor ==
    /\ pc = "main"
    /\ files' = Put(files, MainFilename, main_script(sheet_modules))
    /\ pc' = "idle"
    /\ runs' = runs + 1
    /\ UNCHANGED <<style_registry, style_counters, style_map, sheet_modules, clean_name,
                   original_name, cmd_merges, cmd_styles, cmd_formulas, processed_merges,
                   workbook_data, sheet_scripts, cells_done>>

NextSheet == \E sheet_name \in SheetNames : next_sheet(sheet_name)

ProcessCell == cells_done < MaxCells /\ \E data \in CellInputs : process_cell(data)

Next ==
    \/ generate_full_workbook
    \/ NextSheet
    \/ ProcessCell
    \/ write_sheet_module
    \/ write_common_styles
    \/ write_main_reconstructor

Spec == Init /\ [][Next]_vars

\* ------------------------------------------- the invocation as a function

\* Lines 72-167 over the cell records lo..hi of a list, in order: the first
\* half, then the second half from where the first half ended.  The result of
\* the first half is bound as a set element so that it is computed before the
\* second half starts, as the loop computes it.
RECURSIVE cells_range(_, _, _, _, _)
cells_range(st, loc, cells, lo, hi) ==
    IF lo > hi THEN [st |-> st, loc |-> loc]
    ELSE IF lo = hi THEN cell_body(st, loc, cells[lo])
    ELSE LET mid == (lo + hi) \div 2
         IN  CHOOSE out \in {cells_range(r.st, r.loc, cells, mid + 1, hi) :
                                r \in {cells_range(st, loc, cells, lo, mid)}} : TRUE

\* Lines 72-167 over a whole list of cell records.
cells_loop(st, loc, cells) == cells_range(st, loc, cells, 1, Len(cells))

\* Lines 43-48 over the sheets from position i: the registry, the units written
\* and the list of clean names after the loop.
RECURSIVE sheets_loop(_, _, _, _, _)
sheets_loop(st, written, modules, workbook, i) ==
    IF i > Len(workbook) THEN [st |-> st, files |-> written, sheet_modules |-> modules]
    ELSE LET clean == CleanName(workbook[i].name)
             r == cells_loop(st, NewLocals, workbook[i].cells)
         IN  sheets_loop(r.st,
                         Put(written, ModuleFilename(clean),
                             sheet_script(clean, workbook[i].name, r.loc)),
                         Append(modules, clean), workbook, i + 1)

\* Lines 41-51: the units generate_full_workbook writes for a description when
\* the exporter's registry is st.
full_workbook_output(st, workbook) ==
    LET r == sheets_loop(st, <<>>, <<>>, workbook, 1)
    IN  Put(Put(r.files, CommonFilename, common_styles(r.st.style_registry)),
            MainFilename, main_script(r.sheet_modules))

\* ------------------------------------------------------- long workbooks

\* Lines 43-48 with the whole of _write_sheet_module (lines 53-211) as one
\* step: the next sheet of the mapping with all its cell records.
write_whole_sheet(sheet_name, cells) ==
    /\ pc = "sheets"
    /\ LET clean == CleanName(sheet_name)
           r == cells_loop(Registry, NewLocals, cells)
           script == sheet_script(clean, sheet_name, r.loc)
       IN  /\ style_registry' = r.st.style_registry
           /\ style_counters' = r.st.style_counters
           /\ style_map' = r.st.style_map
           /\ cmd_merges' = r.loc.cmd_merges
           /\ cmd_styles' = r.loc.cmd_styles
           /\ cmd_formulas' = r.loc.cmd_formulas
           /\ processed_merges' = r.loc.processed_merges
           /\ clean_name' = clean
           /\ original_name' = sheet_name
           /\ sheet_modules' = Append(sheet_modules, clean)
           /\ files' = Put(files, ModuleFilename(clean), script)
           /\ sheet_scripts' = Append(sheet_scripts, script)
    /\ workbook_data' = Append(workbook_data, [name |-> sheet_name, cells |-> cells])
    /\ cells_done' = cells_done + Len(cells)
    /\ UNCHANGED <<pc, runs>>

\* One invocation on a new exporter, for a workbook of sheets of LongLen or
\* LongLen + 1 cell records, MaxStyles at most in all, no two with the same
\* font size.
FirstRun == runs = 0 /\ generate_full_workbook

LongSheet ==
    \E n \in {LongLen, LongLen + 1} :
        /\ cells_done + n <= MaxStyles
        /\ write_whole_sheet(LongSheetName(Len(workbook_data) + 1),
                             [i \in 1..n |-> SizedCell(cells_done + i)])

NextMany ==
    \/ FirstRun
    \/ LongSheet
    \/ write_common_styles
    \/ write_main_reconstructor

SpecMany == Init /\ [][NextMany]_vars

\* ------------------------------------------------- reading the run so far

\* An invocation has returned and its units are on disk.
RunComplete == pc = "idle" /\ runs > 0

\* The format_cell statements emitted for sheet s of the description: from its
\* script once written, from the statement list while the sheet is in progress.
StyleCmds(s) ==
    IF s <= Len(sheet_scripts)
    THEN SelectSeq(sheet_scripts[s], LAMBDA line : line.op = "format_cell")
    ELSE cmd_styles

\* The cell records of this invocation in processing order, and the
\* format_cell statement emitted for each.
RECURSIVE FlatCells(_)
FlatCells(s) ==
    IF s > Len(workbook_data) THEN <<>> ELSE workbook_data[s].cells \o FlatCells(s + 1)

RECURSIVE FlatCmds(_)
FlatCmds(s) ==
    IF s > Len(workbook_data) THEN <<>> ELSE StyleCmds(s) \o FlatCmds(s + 1)

RunCells == FlatCells(1)
RunCmds == FlatCmds(1)

\* The attribute subset of a record for a prefix, and the identifier emitted.
SubsetOf(prefix, data) ==
    CASE prefix = "FONT" -> FontData(data)
      [] prefix = "ALIGN" -> AlignData(data)
      [] prefix = "BORDER" -> BorderData(data)
      [] OTHER -> FillData(data)

EmittedId(prefix, cmd) ==
    CASE prefix = "FONT" -> cmd.font
      [] prefix = "ALIGN" -> cmd.alignment
      [] prefix = "BORDER" -> cmd.border
      [] OTHER -> cmd.fill

\* A dictionary as the set of its key-value pairs, whatever the insertion
\* order; the {style, color} values of borders likewise.
ItemSet(d) == {d[i] : i \in 1..Len(d)}
AttrSet(prefix, d) ==
    IF prefix = "BORDER" THEN {<<d[i][1], ItemSet(d[i][2])>> : i \in 1..Len(d)}
    ELSE ItemSet(d)

\* Positions of the run whose subset for the prefix is not empty.
Styled(prefix) == {i \in 1..Len(RunCells) : SubsetOf(prefix, RunCells[i]) # <<>>}

\* C1: within one run, two records with attribute-for-attribute equal
\* non-empty subsets of a category (keys in any order, nested border entries
\* included) resolve to the same identifier, and two records whose subsets
\* differ resolve to different identifiers.
C1_EqualSubsetsSameIdentifier ==
    \A prefix \in Prefixes : \A i, j \in Styled(prefix) :
        (AttrSet(prefix, SubsetOf(prefix, RunCells[i]))
            = AttrSet(prefix, SubsetOf(prefix, RunCells[j])))
        <=> (EmittedId(prefix, RunCmds[i]) = EmittedId(prefix, RunCmds[j]))

\* The identifiers minted so far for a prefix.
Minted(prefix) == {style_map[k] : k \in {k \in DOMAIN style_map : k[1] = prefix}}

\* The distinct subsets of a prefix among the first n records of the run.
SeenUpTo(prefix, n) ==
    {AttrSet(prefix, SubsetOf(prefix, RunCells[i])) : i \in {i \in Styled(prefix) : i <= n}}

\* The first record of the run with the same subset as record i.
FirstSeen(prefix, i) ==
    CHOOSE f \in Styled(prefix) :
        /\ AttrSet(prefix, SubsetOf(prefix, RunCells[f]))
             = AttrSet(prefix, SubsetOf(prefix, RunCells[i]))
        /\ \A g \in Styled(prefix) :
             AttrSet(prefix, SubsetOf(prefix, RunCells[g]))
               = AttrSet(prefix, SubsetOf(prefix, RunCells[i])) => f <= g

\* C2: in the first run of an exporter the identifiers minted in a category
\* are exactly PREFIX_001 .. PREFIX_k, k the number of distinct subsets seen in
\* that category and no other; each record carries the number of its subset in
\* first-seen order; and the identifier a record was emitted with is still the
\* one its subset maps to.
C2_DenseFirstSeenNumbering ==
    runs = 0 =>
        \A prefix \in Prefixes :
            /\ Minted(prefix)
                 = {SeqId(prefix, n) : n \in 1..Cardinality(SeenUpTo(prefix, Len(RunCells)))}
            /\ style_counters[prefix] = Cardinality(SeenUpTo(prefix, Len(RunCells)))
            /\ \A i \in Styled(prefix) :
                 /\ EmittedId(prefix, RunCmds[i])
                      = SeqId(prefix, Cardinality(SeenUpTo(prefix, FirstSeen(prefix, i))))
                 /\ style_map[<<prefix, md5_8(SortedItems(SubsetOf(prefix, RunCells[i])))>>]
                      = EmittedId(prefix, RunCmds[i])

\* C3: the units an invocation writes are those the same description gives
\* on a new exporter, whatever was generated on this exporter before.
C3_OutputDependsOnDescriptionOnly ==
    RunComplete => files = full_workbook_output(NewRegistry, workbook_data)

\* The build_ calls of main.py, in order.
BuildCalls ==
    LET calls == SelectSeq(files[MainFilename], LAMBDA line : line.op = "call_build")
    IN  [i \in 1..Len(calls) |-> calls[i].name]

\* C4: a description of N sheets leaves N + 2 units, the unit named after each
\* sheet holds that sheet's statements, and main.py calls N distinct builders,
\* one per sheet in processing order.
C4_OneUnitPerSheet ==
    RunComplete =>
        /\ Cardinality(DOMAIN files) = Len(workbook_data) + 2
        /\ \A s \in 1..Len(workbook_data) :
             files[ModuleFilename(CleanName(workbook_data[s].name))] = sheet_scripts[s]
        /\ BuildCalls = [s \in 1..Len(workbook_data) |-> CleanName(workbook_data[s].name)]
        /\ \A s, t \in 1..Len(BuildCalls) : s # t => BuildCalls[s] # BuildCalls[t]

\* ----------------------------------------------------- reading common.py

CommonWritten == CommonFilename \in DOMAIN files

\* The declaration lines of common.py, in file order.
Declarations ==
    IF CommonWritten
    THEN SelectSeq(files[CommonFilename], LAMBDA line : line.op = "assign")
    ELSE <<>>

\* The prefix an identifier starts with, and the category it belongs to.
IdPrefix(id) ==
    CHOOSE prefix \in Prefixes : SubSeq(id, 1, Len(PrefixText[prefix])) = PrefixText[prefix]
IdCategory(id) == CategoryOf[IdPrefix(id)]

Position(order, category) == CHOOSE i \in 1..Len(order) : order[i] = category

\* No declaration of a later category of the order comes before one of an
\* earlier category.
DeclarationsFollow(order) ==
    \A i, j \in 1..Len(Declarations) :
        i < j => Position(order, IdCategory(Declarations[i].id))
                   <= Position(order, IdCategory(Declarations[j].id))

\* C5 as stated: the declarations of common.py are grouped by category in
\* the order fonts, fills, borders, alignments.
C5_FontsFillsBordersAlignments ==
    DeclarationsFollow(<<"fonts", "fills", "borders", "alignments">>)

\* C5 amended: the declarations of common.py are grouped by category in the
\* order borders, fills, fonts, alignments, for every registry content.
C5_BordersFillsFontsAlignments ==
    DeclarationsFollow(<<"borders", "fills", "fonts", "alignments">>)

\* common.py holds a border declaration and a font declaration.
C5_Witness ==
    /\ RunComplete
    /\ \E i, j \in 1..Len(Declarations) :
         /\ IdPrefix(Declarations[i].id) = "BORDER"
         /\ IdPrefix(Declarations[j].id) = "FONT"

\* C6: within a category of common.py the declarations are in ascending
\* order of the sequence number of their identifier, whatever the count.
C6_AscendingSequenceNumbers ==
    \A i \in 1..(Len(Declarations) - 1) :
        IdPrefix(Declarations[i].id) = IdPrefix(Declarations[i + 1].id)
        => SeqNumber(IdPrefix(Declarations[i].id), Declarations[i].id)
             < SeqNumber(IdPrefix(Declarations[i + 1].id), Declarations[i + 1].id)

\* The style identifiers the format_cell statements of a script refer to.
Referenced(script) ==
    UNION {{EmittedId(prefix, script[i]) : prefix \in Prefixes} \ {NoStyle} :
             i \in {i \in 1..Len(script) : script[i].op = "format_cell"}}

\* C7: common.py is written only after every sheet has been emitted, it then
\* holds exactly one declaration for every identifier a format_cell statement
\* of any sheet refers to, and after each cell every identifier of style_map
\* has an entry in the registry of its category.
C7_EveryReferenceDeclared ==
    /\ CommonWritten =>
         /\ pc \in {"main", "idle"}
         /\ Len(sheet_scripts) = Len(workbook_data)
         /\ \A s \in 1..Len(sheet_scripts) : \A id \in Referenced(sheet_scripts[s]) :
              Cardinality({i \in 1..Len(Declarations) : Declarations[i].id = id}) = 1
    /\ \A k \in DOMAIN style_map : DictHas(style_registry[CategoryOf[k[1]]], style_map[k])

\* A run has ended whose two sheets both refer to style identifiers.
C7_Witness ==
    /\ RunComplete
    /\ Len(sheet_scripts) = 2
    /\ \A s \in 1..2 : Referenced(sheet_scripts[s]) # {}
    /\ Len(Declarations) >= 2

\* ------------------------------------------------------------- merges

\* The merge statements emitted for sheet s, in order.
MergeCmds(s) ==
    IF s <= Len(sheet_scripts)
    THEN SelectSeq(sheet_scripts[s], LAMBDA line : line.op = "merge_cells")
    ELSE cmd_merges

\* Record i of a sheet is merged and no earlier record of the sheet is merged
\* with the same range.
FirstOfRange(cells, i) ==
    /\ Truthy(cells[i].is_merged)
    /\ \A j \in 1..(i - 1) :
         ~(Truthy(cells[j].is_merged) /\ cells[j].merge_range = cells[i].merge_range)

\* One merge statement per range of a merged record, in first-encounter order.
RECURSIVE MergesFrom(_, _)
MergesFrom(cells, i) ==
    IF i > Len(cells) THEN <<>>
    ELSE (IF FirstOfRange(cells, i)
          THEN <<[op |-> "merge_cells", range |-> cells[i].merge_range.val]>> ELSE <<>>)
         \o MergesFrom(cells, i + 1)

\* C8: the merge statements of every sheet are one per range carried by a
\* merged record of that sheet, none for any other range, in the order the
\* ranges were first encountered; the seen ranges are per sheet.
C8_OneMergePerRange ==
    \A s \in 1..Len(workbook_data) : MergeCmds(s) = MergesFrom(workbook_data[s].cells, 1)

\* A sheet has been emitted whose two records are merged over the same range,
\* with one merge statement.
C8_Witness ==
    \E s \in 1..Len(sheet_scripts) :
        /\ Len(workbook_data[s].cells) = 2
        /\ \A i \in 1..2 : /\ Truthy(workbook_data[s].cells[i].is_merged)
                           /\ workbook_data[s].cells[i].merge_range = RangeR1
        /\ Len(MergeCmds(s)) = 1

\* ------------------------------------------------------------ alignment

\* A field that is not set (absent or null) or holds the given default.
NotSetOr(v, default) == v.type \in {"absent", "NoneType"} \/ v = default

AlignmentNotSet(data) ==
    /\ NotSetOr(data.horizontal_align, PyStr(<<"l", "e", "f", "t">>))
    /\ NotSetOr(data.vertical_align, PyStr(<<"b", "o", "t", "t", "o", "m">>))
    /\ NotSetOr(data.text_rotation, PyInt(0))

\* The record processed last.
LastCell ==
    workbook_data[Len(workbook_data)].cells[Len(workbook_data[Len(workbook_data)].cells)]

\* C9: processing a record whose alignment fields are each not set (absent or
\* null) or at the default interns no alignment: the ALIGN counter and the
\* alignments registry stay as they are and the record is emitted with the
\* "no style" placeholder.
C9_DefaultAlignmentInternsNothing ==
    [][(cells_done' = cells_done + 1 /\ AlignmentNotSet(LastCell'))
       => /\ style_counters'["ALIGN"] = style_counters["ALIGN"]
          /\ style_registry'["alignments"] = style_registry["alignments"]
          /\ cmd_styles'[Len(cmd_styles')].alignment = NoStyle]_vars

\* ------------------------------------------------------------- formulas

\* coordinate names the cell at (row, col), for the columns A..Z and rows 1..9.
Consistent(data) ==
    data.coordinate = <<CodePoints[Ord("A") + data.col - 1], DigitChar[data.row + 1]>>

UniqueConsistent(cells) ==
    /\ \A i \in 1..Len(cells) : Consistent(cells[i])
    /\ \A i, j \in 1..Len(cells) : i # j => cells[i].coordinate # cells[j].coordinate

\* The statement writes content into the cell of the record when executed:
\* a formula assignment to its address, or a format_cell call on its row and
\* column with a value that is not empty.
WritesContent(line, data) ==
    \/ line.op = "set_formula" /\ line.address = data.coordinate
    \/ line.op = "format_cell" /\ line.row = data.row /\ line.column = data.col
         /\ line.value # <<>>

\* C10: in the script of a sheet with unique, consistent coordinates, the
\* formula assignment of every record with a formula is the last statement
\* that writes the content of its cell.
C10_FormulaWrittenLast ==
    \A s \in 1..Len(sheet_scripts) :
        UniqueConsistent(workbook_data[s].cells) =>
            \A c \in 1..Len(workbook_data[s].cells) :
                LET data == workbook_data[s].cells[c]
                    script == sheet_scripts[s]
                IN  Truthy(data.formula) =>
                      \E k \in 1..Len(script) :
                          /\ script[k] = [op |-> "set_formula", address |-> data.coordinate,
                                          formula |-> data.formula.val]
                          /\ \A m \in 1..Len(script) :
                               WritesContent(script[m], data) => m <= k

\* A sheet has been emitted with a record that has a value and a formula,
\* beside a second record at another cell.
C10_Witness ==
    \E s \in 1..Len(sheet_scripts) :
        /\ UniqueConsistent(workbook_data[s].cells)
        /\ Len(workbook_data[s].cells) = 2
        /\ \E c \in 1..2 :
             /\ Truthy(workbook_data[s].cells[c].formula)
             /\ ValueText(workbook_data[s].cells[c]) # <<>>

====
